---- MODULE Spec2Model ----
(***************************************************************************)
(* A model of the nrql command-line client (src/src/main.rs): one process  *)
(* invocation, from the parsed command line to the exit code.              *)
(*                                                                         *)
(*   main -> process_matches -> Connection::from_args                      *)
(*                           -> Connection::run_query                      *)
(*                           -> QueryResults::print (Format::from_args)    *)
(*                                                                         *)
(* Text is modelled by TLA+ strings (ASCII, so a byte length is a Len).    *)
(* A Rust panic (a failed unwrap or index) aborts the process with exit    *)
(* status 101 and is modelled as such.                                     *)
(***************************************************************************)
EXTENDS Naturals, Sequences, FiniteSets

VARIABLES
    pc,         \* position of the process: see the actions
    args,       \* the parsed command line (ArgMatches)
    fs,         \* the home directory and the file <home>/.insights.yaml
    server,     \* what the remote API answers to the request
    connection, \* Option<Connection> held by process_matches
    touched,    \* the calls Connection::from_args made on the config store
    query,      \* the NRQL text handed to run_query
    requests,   \* the HTTP requests sent, in order
    raw,        \* QueryResults.raw
    format,     \* the Format chosen by Format::from_args
    value,      \* print_table: the extracted result array
    idx,        \* print_table: next element of value to visit (first loop)
    first,      \* print_table: first
    widths,     \* print_table: widths
    rows,       \* print_table: rows
    out,        \* print_table: next row of rows to print (second loop)
    stdout,     \* what was written to standard output, in order
    stderr,     \* what was written to standard error, in order
    result,     \* what process_matches returned to main
    exit        \* the exit status of the process, or Running

table == <<value, idx, first, widths, rows, out>>
vars == <<pc, args, fs, server, connection, touched, query, requests, raw,
          format, value, idx, first, widths, rows, out, stdout, stderr,
          result, exit>>

(***************************************************************************)
(* Option<String> and friends.                                             *)
(***************************************************************************)
NONE == [some |-> FALSE, v |-> ""]
Some(s) == [some |-> TRUE, v |-> s]
unwrap_or(o, d) == IF o.some THEN o.v ELSE d
or(o, p) == IF o.some THEN o ELSE p
max(a, b) == IF a >= b THEN a ELSE b
min(a, b) == IF a <= b THEN a ELSE b

(***************************************************************************)
(* Account, Config and the config store.  A HashMap<String, Account> is a  *)
(* set of entries with pairwise different keys.                            *)
(***************************************************************************)
Account(id, key, url) == [account_id |-> id, api_key |-> key, url |-> url]
Entry(k, a) == [key |-> k, account |-> a]
NoEntry == [some |-> FALSE, v |-> Account("", "", NONE)]
get(accounts, k) ==
    IF \E e \in accounts : e.key = k
    THEN [some |-> TRUE, v |-> (CHOOSE e \in accounts : e.key = k).account]
    ELSE NoEntry
NoAccounts == [some |-> FALSE, v |-> {}]
SomeAccounts(m) == [some |-> TRUE, v |-> m]
Config(d, accts) == [default |-> d, accounts |-> accts]

NoConnection == [some |-> FALSE, v |-> [account_id |-> "", api_key |-> "", url |-> ""]]
Connection(id, key, url) ==
    [some |-> TRUE, v |-> [account_id |-> id, api_key |-> key, url |-> url]]

default_url == "https://insights-api.newrelic.com/"

(***************************************************************************)
(* Connection::from_args.  The outcome of a call is a record: status is    *)
(* "Ok", "Err" (an Error returned to the caller, named by err) or "Panic"  *)
(* (an unwrap on None); touched lists the calls made on the config store.  *)
(* The error values are failure::err_msg strings or I/O and YAML errors;   *)
(* they are named here by the condition that raises them:                  *)
(*   InvalidArguments    "Either pass in both account_id and api_key ..."  *)
(*   HomeDirNotFound     "Unable to find home directory for config. ..."   *)
(*   ConfigNotFound      "<path> does not exist. Must provide ..."         *)
(*   ConfigUnreadable    the io::Error of File::open                       *)
(*   ConfigParseError    the serde_yaml::Error of from_reader              *)
(*   NoAccountSpecified  "No account specified!"                           *)
(*   UnknownAccount      "Unable to find account config for <key>!"        *)
(***************************************************************************)
Ok(conn, t) == [status |-> "Ok", err |-> "", connection |-> conn, touched |-> t]
Err(e, t) == [status |-> "Err", err |-> e, connection |-> NoConnection, touched |-> t]
Panic(t) == [status |-> "Panic", err |-> "", connection |-> NoConnection, touched |-> t]

\* line 58: account_id == None || api_key == None
FlagsIncomplete(account_id, api_key) == ~account_id.some \/ ~api_key.some

\* line 59 with && written for ||
FlagsMixedConjoined(account_id, api_key) == account_id.some /\ api_key.some
\* line 59: account_id != None || api_key != None
FlagsMixed(account_id, api_key) == account_id.some \/ api_key.some

\* lines 76-78 with the two sources in the other order
EffectiveAccountDefaultFirst(account, config) == or(config.default, account)
\* lines 76-78: matches.value_of("account").or(config.default...)
EffectiveAccount(account, config) == or(account, config.default)

\* lines 85-94: the Connection of one Account entry
AccountConnection(account_config) ==
    Connection(account_config.account_id, account_config.api_key,
               unwrap_or(account_config.url, default_url))

\* lines 97-101 with account_id used for both fields
ExplicitConnectionSameField(account_id, api_key, url) ==
    Connection(account_id.v, account_id.v, unwrap_or(url, default_url))
\* lines 97-101: the Connection of the flags
ExplicitConnection(account_id, api_key, url) ==
    Connection(account_id.v, api_key.v, unwrap_or(url, default_url))

\* lines 64-94: the branch that consults the config store
from_config(account, f) ==
    IF ~f.home THEN Err("HomeDirNotFound", <<"home_dir">>)
    ELSE IF f.file = "missing"
    THEN Err("ConfigNotFound", <<"home_dir", "exists">>)
    ELSE IF f.file = "unreadable"
    THEN Err("ConfigUnreadable", <<"home_dir", "exists", "open">>)
    ELSE IF f.file = "malformed"
    THEN Err("ConfigParseError", <<"home_dir", "exists", "open", "parse">>)
    ELSE
        LET config == f.config
            t == <<"home_dir", "exists", "open", "parse">>
            key == EffectiveAccount(account, config)
        IN  IF ~key.some THEN Err("NoAccountSpecified", t)
            ELSE IF ~config.accounts.some THEN Panic(t)       \* line 80: unwrap
            ELSE
                LET account_config == get(config.accounts.v, key.v)
                IN  IF ~account_config.some THEN Err("UnknownAccount", t)
                    ELSE Ok(AccountConnection(account_config.v), t)

\* lines 53-102
from_args(a, f) ==
    LET account_id == a.account_id
        api_key == a.api_key
        url == NONE     \* line 57: the App declares no "url" argument
    IN  IF FlagsIncomplete(account_id, api_key)
        THEN IF FlagsMixed(account_id, api_key)
             THEN Err("InvalidArguments", << >>)
             ELSE from_config(a.account, f)
        ELSE Ok(ExplicitConnection(account_id, api_key, url), << >>)

(***************************************************************************)
(* Command Dispatcher and Query Client.                                    *)
(***************************************************************************)
\* url::form_urlencoded::byte_serialize on one character.  The queries of
\* the model hold, besides these, only ASCII letters and digits, which the
\* encoding leaves as they are.
byte_serialize_char(c) ==
    CASE c = " " -> "+"
      [] c = "(" -> "%28"
      [] c = ")" -> "%29"
      [] c = "'" -> "%27"
      [] c = "%" -> "%25"
      [] OTHER -> c

RECURSIVE byte_serialize(_)
\* line 105
byte_serialize(q) ==
    IF q = "" THEN "" ELSE byte_serialize_char(Head(q)) \o byte_serialize(Tail(q))

\* lines 107-116: the request run_query sends
Request(conn, q) ==
    [url |-> conn.url \o "v1/accounts/" \o conn.account_id \o "/query?nrql="
                 \o byte_serialize(q),
     accept |-> "application/json",
     x_query_key |-> conn.api_key]

\* lines 231-263: the query of the subcommand that was given; the run
\* subcommand unwraps its optional nrql argument (line 232).
subcommand_query(sub) ==
    CASE sub.name = "run" ->
           IF sub.nrql.some THEN Some(sub.nrql.v) ELSE NONE
      [] sub.name = "types" -> Some("show event types")
      [] sub.name = "attrs" ->
           Some("select keyset() from " \o sub.type \o " since 1 week ago")
      [] sub.name = "complete" ->
           Some("select uniques(" \o sub.attr \o ") from " \o sub.type
                \o (IF sub.partial.some
                    THEN " where " \o sub.attr \o " like '" \o sub.partial.v \o "%'"
                    ELSE "")
                \o " since 1 week ago")

(***************************************************************************)
(* Format::from_args.  flags is the record of the four is_present tests.   *)
(***************************************************************************)
\* lines 131-143 with the csv test moved before the json test
FormatCsvFirst(flags) ==
    IF flags.csv THEN "CSV"
    ELSE IF flags.json THEN "JSON"
    ELSE IF flags.raw THEN "Raw"
    ELSE "Table"
\* lines 131-143 with the raw test moved before the csv test
FormatRawFirst(flags) ==
    IF flags.json THEN "JSON"
    ELSE IF flags.raw THEN "Raw"
    ELSE IF flags.csv THEN "CSV"
    ELSE "Table"
\* lines 130-144
Format_from_args(flags) ==
    IF flags.json THEN "JSON"
    ELSE IF flags.csv THEN "CSV"
    ELSE IF flags.raw THEN "Raw"
    ELSE IF flags.table THEN "Table"
    ELSE "Table"

(***************************************************************************)
(* JSON.  A response text is modelled by the tree serde_json parses it     *)
(* to, or by Invalid when it is no JSON at all.  An object lists its keys  *)
(* in iteration order (serde_json::Map: sorted) with the values beside     *)
(* them.                                                                   *)
(***************************************************************************)
Invalid == [t |-> "invalid", s |-> "", keys |-> << >>, items |-> << >>]
Str(s) == [t |-> "str", s |-> s, keys |-> << >>, items |-> << >>]
Num(s) == [t |-> "num", s |-> s, keys |-> << >>, items |-> << >>]
Arr(items) == [t |-> "arr", s |-> "", keys |-> << >>, items |-> items]
Obj(keys, items) == [t |-> "obj", s |-> "", keys |-> keys, items |-> items]

RECURSIVE escape(_)
\* serde_json's string escaping, for the two characters it matters for here
escape(s) ==
    IF s = "" THEN ""
    ELSE (CASE Head(s) = "\"" -> "\\\""
            [] Head(s) = "\\" -> "\\\\"
            [] OTHER -> Head(s)) \o escape(Tail(s))

RECURSIVE to_string(_)
RECURSIVE join_items(_)
RECURSIVE join_members(_, _)
\* Value::to_string: compact JSON text
to_string(v) ==
    CASE v.t = "str" -> "\"" \o escape(v.s) \o "\""
      [] v.t = "num" -> v.s
      [] v.t = "arr" -> "[" \o join_items(v.items) \o "]"
      [] v.t = "obj" -> "{" \o join_members(v.keys, v.items) \o "}"
join_items(items) ==
    IF items = << >> THEN ""
    ELSE to_string(Head(items))
         \o (IF Len(items) > 1 THEN "," ELSE "") \o join_items(Tail(items))
join_members(keys, items) ==
    IF keys = << >> THEN ""
    ELSE "\"" \o escape(Head(keys)) \o "\":" \o to_string(Head(items))
         \o (IF Len(keys) > 1 THEN "," ELSE "")
         \o join_members(Tail(keys), Tail(items))

RECURSIVE trim_start(_)
RECURSIVE trim_end(_)
trim_start(s) == IF s # "" /\ Head(s) = "\"" THEN trim_start(Tail(s)) ELSE s
trim_end(s) ==
    IF s # "" /\ SubSeq(s, Len(s), Len(s)) = "\""
    THEN trim_end(SubSeq(s, 1, Len(s) - 1)) ELSE s
\* str::trim_matches(&['"'])
trim_matches(s) == trim_end(trim_start(s))

\* lines 202-205: the display string of one property value
cell(v) == trim_matches(to_string(v))

\* lines 167-171 and 177-181: the result array inside the envelope, or a
\* panic (ok = FALSE) at the first unwrap or index that fails:
\*   from_str::<Results>: the text is a JSON object with an array "results"
\*   parsed.results[0]: the array has a first element
\*   as_object(): it is an object;  keys().next(): with a key
\*   as_array(): whose value is an array
envelope_value(r) ==
    LET at == IF r.t = "obj"
              THEN {i \in 1..Len(r.keys) : r.keys[i] = "results"} ELSE {}
        results == IF at # {} THEN r.items[CHOOSE i \in at : TRUE] ELSE Invalid
    IN  IF /\ results.t = "arr"
           /\ Len(results.items) > 0
           /\ results.items[1].t = "obj"
           /\ Len(results.items[1].keys) > 0
           /\ results.items[1].items[1].t = "arr"
        THEN [ok |-> TRUE, value |-> results.items[1].items[1].items]
        ELSE [ok |-> FALSE, value |-> << >>]

RECURSIVE spaces(_)
spaces(n) == IF n = 0 THEN "" ELSE " " \o spaces(n - 1)

RECURSIVE to_string_pretty(_, _)
RECURSIVE pretty_items(_, _)
RECURSIVE pretty_members(_, _, _)
\* serde_json::to_string_pretty at nesting depth d: two spaces a level
to_string_pretty(v, d) ==
    CASE v.t = "arr" /\ v.items # << >> ->
           "[\n" \o pretty_items(v.items, d + 1) \o "\n" \o spaces(2 * d) \o "]"
      [] v.t = "obj" /\ v.keys # << >> ->
           "{\n" \o pretty_members(v.keys, v.items, d + 1) \o "\n"
           \o spaces(2 * d) \o "}"
      [] OTHER -> to_string(v)
pretty_items(items, d) ==
    IF items = << >> THEN ""
    ELSE spaces(2 * d) \o to_string_pretty(Head(items), d)
         \o (IF Len(items) > 1 THEN ",\n" ELSE "") \o pretty_items(Tail(items), d)
pretty_members(keys, items, d) ==
    IF keys = << >> THEN ""
    ELSE spaces(2 * d) \o "\"" \o escape(Head(keys)) \o "\": "
         \o to_string_pretty(Head(items), d)
         \o (IF Len(keys) > 1 THEN ",\n" ELSE "")
         \o pretty_members(Tail(keys), Tail(items), d)

(***************************************************************************)
(* QueryResults::print_table, one element or one row a step.               *)
(***************************************************************************)
\* One write to standard output; kind tells which statement wrote it.
Line(kind, text) == [kind |-> kind, text |-> text]

\* lines 191-195: the header row of the first object
header_row(obj) == obj.keys
\* line 193: widths.push(key.len()), once per key
header_widths(obj) == [j \in 1..Len(obj.keys) |-> Len(obj.keys[j])]
\* lines 199-207
data_row(obj) == [j \in 1..Len(obj.keys) |-> cell(obj.items[j])]
\* lines 208-213: zip stops at the shorter of the row and the widths
zip_max(row, w) ==
    [j \in 1..min(Len(row), Len(w)) |-> max(Len(row[j]), w[j])]

\* line 221: {:<width$} followed by one space
pad(column, width) ==
    column \o spaces(IF width > Len(column) THEN width - Len(column) ELSE 0) \o " "
RECURSIVE format_cells(_, _)
\* lines 220-222: the cells of one row, zipped with the widths
format_cells(row, w) ==
    IF row = << >> \/ w = << >> THEN ""
    ELSE pad(Head(row), Head(w)) \o format_cells(Tail(row), Tail(w))

\* lines 186-218 with the row of an object printed as soon as it is measured
visit_output_streaming(v, st) ==
    CASE v.t = "str" -> << Line("string", v.s) >>
      [] v.t = "obj" -> << Line("row", format_cells(data_row(v), st.widths)) >>
      [] OTHER -> << Line("diag", "Unexpected type in result!") >>
\* lines 188, 216: what visiting one element writes in the first loop
visit_output(v, st) ==
    CASE v.t = "str" -> << Line("string", v.s) >>
      [] v.t = "obj" -> << >>
      [] OTHER -> << Line("diag", "Unexpected type in result!") >>

\* lines 189-215: first, widths and rows after visiting one element
visit_state(v, st) ==
    IF v.t = "obj"
    THEN LET w0 == IF st.first THEN st.widths \o header_widths(v) ELSE st.widths
             r0 == IF st.first THEN Append(st.rows, header_row(v)) ELSE st.rows
             row == data_row(v)
         IN  [first |-> FALSE, widths |-> zip_max(row, w0), rows |-> Append(r0, row)]
    ELSE st

(***************************************************************************)
(* The inputs of one invocation.                                           *)
(***************************************************************************)
MaxRows == 2    \* elements of a result array

Flags == [raw : BOOLEAN, json : BOOLEAN, csv : BOOLEAN, table : BOOLEAN]
\* no formatting flag, or one of the four
SingleFlags == {f \in Flags : Cardinality({k \in {"raw", "json", "csv", "table"} : f[k]}) <= 1}

Sub(name, nrql, type, attr, partial) ==
    [name |-> name, nrql |-> nrql, type |-> type, attr |-> attr, partial |-> partial]
\* lines 323-359: run [nrql], types, attrs <type>, complete <type> <attr> [partial]
Commands ==
    { Sub("run", NONE, "", "", NONE),
      Sub("run", Some("select 1"), "", "", NONE),
      Sub("types", NONE, "", "", NONE),
      Sub("attrs", NONE, "Txn", "", NONE),
      Sub("complete", NONE, "Txn", "status", NONE),
      Sub("complete", NONE, "Txn", "status", Some("OK")) }

\* lines 297-360: the global flags, the one subcommand (SubcommandRequiredElseHelp)
\* and the formatting flags of that subcommand
Args ==
    [account_id : {NONE, Some("9")},
     api_key : {NONE, Some("f")},
     account : {NONE, Some("dev"), Some("qa")},
     sub : Commands,
     flags : Flags]
ExplicitArgs ==
    [account_id : {Some("9")}, api_key : {Some("f")}, account : {NONE},
     sub : {Sub("types", NONE, "", "", NONE)}, flags : SingleFlags]

ProdAccount == Account("1", "k", NONE)
DevAccount == Account("2", "d", Some("https://staging.example/"))
Configs ==
    { Config(d, a) :
        d \in {NONE, Some("prod")},
        a \in { NoAccounts,
                SomeAccounts({Entry("dev", DevAccount)}),
                SomeAccounts({Entry("prod", ProdAccount), Entry("dev", DevAccount)}) } }
NoConfig == Config(NONE, NoAccounts)
\* the home directory, and the state of <home>/.insights.yaml in it
FileSystems ==
    { [home |-> FALSE, file |-> "missing", config |-> NoConfig] }
    \cup { [home |-> TRUE, file |-> f, config |-> NoConfig] :
             f \in {"missing", "unreadable", "malformed"} }
    \cup { [home |-> TRUE, file |-> "parsed", config |-> c] : c \in Configs }

\* the API's envelope around a result array
Envelope(items) == Obj(<<"results">>, << Arr(<< Obj(<<"events">>, << Arr(items) >>) >>) >>)
CellValues == {Str("1"), Str("333"), Num("22")}
Objects ==
    { Obj(<< >>, << >>) }
    \cup { Obj(<<k>>, <<v>>) : k \in {"a", "bb"}, v \in CellValues }
    \cup { Obj(<<"a", "bb">>, <<v, w>>) : v \in CellValues, w \in CellValues }
Elements == Objects \cup {Str("T"), Str("Uv"), Num("7")}
Arrays == UNION { [1..n -> Elements] : n \in 0..MaxRows }

TransportFailure == [ok |-> FALSE, body |-> Invalid]
Reply(body) == [ok |-> TRUE, body |-> body]
\* one body of each shape the renderers tell apart
SampleBodies ==
    { Invalid,
      Num("5"),
      Obj(<<"error">>, << Str("x") >>),
      Obj(<<"results">>, << Arr(<< >>) >>),
      Obj(<<"results">>, << Arr(<< Num("5") >>) >>),
      Obj(<<"results">>, << Arr(<< Obj(<< >>, << >>) >>) >>),
      Obj(<<"results">>, << Arr(<< Obj(<<"events">>, << Num("5") >>) >>) >>),
      Envelope(<< >>),
      Envelope(<< Str("T") >>),
      Envelope(<< Obj(<<"a", "bb">>, << Str("333"), Num("22") >>) >>) }
SampleServers == {TransportFailure} \cup {Reply(b) : b \in SampleBodies}
TableServers == {Reply(Envelope(a)) : a \in Arrays}

(***************************************************************************)
(* The process.                                                            *)
(***************************************************************************)
Running == [exited |-> FALSE, code |-> 0]
Exited(code) == [exited |-> TRUE, code |-> code]
NoResult == [status |-> "none", err |-> ""]
ResultOk == [status |-> "Ok", err |-> ""]
ResultErr(e) == [status |-> "Err", err |-> e]

Start ==
    /\ pc = "from_args"
    /\ connection = NoConnection
    /\ touched = << >>
    /\ query = ""
    /\ requests = << >>
    /\ raw = Invalid
    /\ format = ""
    /\ value = << >>
    /\ idx = 1
    /\ first = TRUE
    /\ widths = << >>
    /\ rows = << >>
    /\ out = 1
    /\ stdout = << >>
    /\ stderr = << >>
    /\ result = NoResult
    /\ exit = Running

\* any command line and config store, one response of each shape
Init ==
    /\ args \in Args
    /\ fs \in FileSystems
    /\ server \in SampleServers
    /\ Start

\* credentials given as flags, any result array of up to MaxRows elements
InitRender ==
    /\ args \in ExplicitArgs
    /\ fs \in {[home |-> TRUE, file |-> "parsed", config |-> NoConfig]}
    /\ server \in TableServers
    /\ Start

\* a failed unwrap or index: the panic message, then exit status 101
Abort ==
    /\ pc' = "exited"
    /\ stderr' = Append(stderr, "panicked")
    /\ exit' = Exited(101)
    /\ result' = result

\* process_matches returns r to main
Return(r) ==
    /\ pc' = "returned"
    /\ result' = r
    /\ UNCHANGED <<stderr, exit>>

Continue(to) ==
    /\ pc' = to
    /\ UNCHANGED <<result, stderr, exit>>

\* line 230
FromArgs ==
    /\ pc = "from_args"
    /\ LET r == from_args(args, fs)
       IN  /\ connection' = r.connection
           /\ touched' = r.touched
           /\ CASE r.status = "Ok" -> Continue("dispatch")
                [] r.status = "Err" -> Return(ResultErr(r.err))
                [] OTHER -> Abort
    /\ UNCHANGED <<args, fs, server, query, requests, raw, format, table, stdout>>

\* lines 231-262: the branch of the subcommand, up to its call of run_query
Dispatch ==
    /\ pc = "dispatch"
    /\ LET q == subcommand_query(args.sub)
       IN  IF q.some
           THEN query' = q.v /\ Continue("echo")
           ELSE query' = query /\ Abort
    /\ UNCHANGED <<args, fs, server, connection, touched, requests, raw, format,
                   table, stdout>>

\* lines 105-111
Echo ==
    /\ pc = "echo"
    /\ stdout' = Append(stdout, Line("echo", query))
    /\ Continue("send")
    /\ UNCHANGED <<args, fs, server, connection, touched, query, requests, raw,
                   format, table>>

\* lines 112-117
Send ==
    /\ pc = "send"
    /\ requests' = Append(requests, Request(connection.v, query))
    /\ IF server.ok
       THEN raw' = server.body /\ Continue("print")
       ELSE raw' = raw /\ Return(ResultErr("NetworkError"))
    /\ UNCHANGED <<args, fs, server, connection, touched, query, format, table,
                   stdout>>

\* lines 148-181: Format::from_args, then print up to the first loop of
\* print_table
print ==
    /\ pc = "print"
    /\ format' = Format_from_args(args.flags)
    /\ LET e == envelope_value(raw)
       IN  CASE format' = "CSV" ->
                  /\ Return(ResultErr("UnsupportedFormat"))
                  /\ UNCHANGED <<stdout, table>>
             [] format' = "Raw" ->
                  IF raw.t = "invalid"
                  THEN Abort /\ UNCHANGED <<stdout, table>>
                  ELSE /\ stdout' = Append(stdout, Line("raw", to_string_pretty(raw, 0)))
                       /\ Return(ResultOk)
                       /\ UNCHANGED table
             [] format' = "JSON" ->
                  IF ~e.ok
                  THEN Abort /\ UNCHANGED <<stdout, table>>
                  ELSE /\ stdout' = Append(stdout,
                                       Line("json", to_string_pretty(Arr(e.value), 0)))
                       /\ Return(ResultOk)
                       /\ UNCHANGED table
             [] format' = "Table" ->
                  IF ~e.ok
                  THEN Abort /\ UNCHANGED <<stdout, table>>
                  ELSE /\ value' = e.value
                       /\ first' = TRUE
                       /\ widths' = << >>
                       /\ rows' = << >>
                       /\ idx' = 1
                       /\ out' = out
                       /\ Continue("measure")
                       /\ stdout' = stdout
    /\ UNCHANGED <<args, fs, server, connection, touched, query, requests, raw>>

\* lines 186-218: one turn of the first loop, or its end
Measure ==
    /\ pc = "measure"
    /\ IF idx <= Len(value)
       THEN LET st == [first |-> first, widths |-> widths, rows |-> rows]
                nx == visit_state(value[idx], st)
            IN  /\ stdout' = stdout \o visit_output(value[idx], st)
                /\ first' = nx.first
                /\ widths' = nx.widths
                /\ rows' = nx.rows
                /\ idx' = idx + 1
                /\ out' = out
                /\ Continue("measure")
       ELSE /\ out' = 1
            /\ Continue("rows")
            /\ UNCHANGED <<stdout, first, widths, rows, idx>>
    /\ UNCHANGED <<args, fs, server, connection, touched, query, requests, raw,
                   format, value>>

\* lines 219-225: one turn of the second loop, or Ok(())
PrintRow ==
    /\ pc = "rows"
    /\ IF out <= Len(rows)
       THEN /\ stdout' = Append(stdout, Line("row", format_cells(rows[out], widths)))
            /\ out' = out + 1
            /\ Continue("rows")
       ELSE /\ Return(ResultOk)
            /\ UNCHANGED <<stdout, out>>
    /\ UNCHANGED <<args, fs, server, connection, touched, query, requests, raw,
                   format, value, idx, first, widths, rows>>

\* lines 361-367
Exit ==
    /\ pc = "returned"
    /\ pc' = "exited"
    /\ IF result.status = "Ok"
       THEN exit' = Exited(0) /\ stderr' = stderr
       ELSE exit' = Exited(1) /\ stderr' = Append(stderr, result.err)
    /\ UNCHANGED <<args, fs, server, connection, touched, query, requests, raw,
                   format, table, stdout, result>>

Next == FromArgs \/ Dispatch \/ Echo \/ Send \/ print \/ Measure \/ PrintRow \/ Exit

Spec == Init /\ [][Next]_vars
SpecRender == InitRender /\ [][Next]_vars

(***************************************************************************)
(* Properties.                                                             *)
(***************************************************************************)
Resolved == pc # "from_args"
Finished == pc = "exited"
ExactlyOneCredential == args.account_id.some # args.api_key.some
BothCredentials == args.account_id.some /\ args.api_key.some
NoCredentials == ~args.account_id.some /\ ~args.api_key.some
ConfigLoads == fs.home /\ fs.file = "parsed"
\* the account flag if given, otherwise Config.default
EffectiveKey == IF args.account.some THEN args.account ELSE fs.config.default
\* the entries of Config.accounts under the effective key (none when the
\* mapping is absent)
EffectiveEntries ==
    IF EffectiveKey.some /\ fs.config.accounts.some
    THEN {e \in fs.config.accounts.v : e.key = EffectiveKey.v}
    ELSE {}

\* C1: when exactly one of the account_id and api_key flags is supplied,
\* Connection::from_args returns the InvalidArguments error: the config
\* store is not touched, no request is sent, nothing is written to standard
\* output, and the process exits with code 1.
C1_OneCredentialIsInvalidArguments ==
    ExactlyOneCredential =>
        /\ touched = << >>
        /\ requests = << >>
        /\ stdout = << >>
        /\ connection = NoConnection
        /\ pc \in {"from_args", "returned", "exited"}
        /\ Resolved => result = ResultErr("InvalidArguments")
        /\ Finished => exit = Exited(1)

C1_Witness ==
    /\ ExactlyOneCredential
    /\ args.account.some
    /\ ConfigLoads
    /\ Finished
    /\ exit = Exited(1)
    /\ stderr = <<"InvalidArguments">>

\* C2: when both account_id and api_key are supplied as flags,
\* Connection::from_args succeeds without any call on the config store,
\* whatever the state of the config file and the account flag, and the
\* Connection carries the two flag values (and the fixed endpoint).
C2_FlagsWinOutright ==
    (BothCredentials /\ Resolved) =>
        /\ touched = << >>
        /\ connection.some
        /\ connection.v.account_id = args.account_id.v
        /\ connection.v.api_key = args.api_key.v
        /\ connection.v.url = "https://insights-api.newrelic.com/"
        /\ result # ResultErr("InvalidArguments")

C2_Witness ==
    /\ BothCredentials
    /\ args.account.some
    /\ fs.file = "malformed"
    /\ pc = "dispatch"
    /\ connection.some
    /\ connection.v.api_key = "f"

\* C3: with neither credential flag and a config file that loads, when the
\* effective account key (the account flag, else Config.default) has an
\* entry in Config.accounts, the Connection has the account_id and api_key
\* of that entry, and its url, or the fixed endpoint when it has none.
C3_ConnectionFromAccountEntry ==
    (NoCredentials /\ ConfigLoads /\ EffectiveEntries # {} /\ Resolved) =>
        \E e \in EffectiveEntries :
            /\ connection.some
            /\ connection.v.account_id = e.account.account_id
            /\ connection.v.api_key = e.account.api_key
            /\ connection.v.url = IF e.account.url.some
                                  THEN e.account.url.v
                                  ELSE "https://insights-api.newrelic.com/"

C3_Witness ==
    /\ NoCredentials
    /\ args.account = Some("dev")
    /\ fs.config.default = Some("prod")
    /\ Cardinality(fs.config.accounts.v) = 2
    /\ pc = "dispatch"
    /\ connection.v.account_id = "2"
    /\ connection.v.url = "https://staging.example/"

\* C4: with neither credential flag and a config file that parses, whether
\* its accounts mapping is present or absent, an effective account key with
\* no entry in Config.accounts makes resolution fail with UnknownAccount,
\* ending the process with exit code 1 and no request, and in no other way.
C4_MissingEntryIsUnknownAccount ==
    (NoCredentials /\ ConfigLoads /\ EffectiveKey.some /\ EffectiveEntries = {}
     /\ Resolved) =>
        /\ result = ResultErr("UnknownAccount")
        /\ requests = << >>
        /\ Finished => exit = Exited(1)

\* the body does not fit what the format parses
Malformed(fmt, body) ==
    \/ fmt \in {"Raw", "JSON", "Table"} /\ body.t = "invalid"
    \/ fmt \in {"JSON", "Table"} /\ ~envelope_value(body).ok

\* C5: for the Raw, JSON and Table formats, a response body that is not
\* valid JSON (for JSON and Table also one whose envelope does not match)
\* makes print return MalformedResponse, and the process exits with code 1.
C5_MalformedResponseIsAnError ==
    (Finished /\ Malformed(format, raw)) =>
        /\ result = ResultErr("MalformedResponse")
        /\ exit = Exited(1)

Rendered == {k \in 1..Len(stdout) : stdout[k].kind # "echo"}

\* C6 as stated: whenever the csv flag is given, whatever the other
\* formatting flags, rendering fails with UnsupportedFormat and renders
\* nothing.  (Runs that end in a panic are set aside here: they are the
\* matter of C5.)
C6_CsvAlwaysUnsupported ==
    (args.flags.csv /\ format # "" /\ exit # Exited(101)) =>
        /\ result = ResultErr("UnsupportedFormat")
        /\ Rendered = {}

\* C6 amended: whenever the csv flag is given and the json flag is not,
\* whatever the raw and table flags and the response body, rendering fails
\* with UnsupportedFormat, renders nothing and the process exits with code
\* 1; with the json flag given too, JSON is the format.
C6_CsvWithoutJsonUnsupported ==
    (args.flags.csv /\ format # "") =>
        IF args.flags.json
        THEN format = "JSON"
        ELSE /\ format = "CSV"
             /\ result = ResultErr("UnsupportedFormat")
             /\ Rendered = {}
             /\ pc \in {"returned", "exited"}
             /\ Finished => exit = Exited(1)

C6_Witness ==
    /\ args.flags.csv /\ args.flags.raw /\ args.flags.table /\ ~args.flags.json
    /\ raw = Envelope(<< Str("T") >>)
    /\ Finished
    /\ exit = Exited(1)
    /\ stderr = <<"UnsupportedFormat">>

Rank(f) == CASE f = "JSON" -> 4 [] f = "CSV" -> 3 [] f = "Raw" -> 2 [] OTHER -> 1
\* the formats asked for by a flag, and Table, the default
Requested ==
    {"Table"} \cup {f \in {"JSON", "CSV", "Raw"} :
                      \/ f = "JSON" /\ args.flags.json
                      \/ f = "CSV" /\ args.flags.csv
                      \/ f = "Raw" /\ args.flags.raw}

\* C7: for each combination of the four formatting flags the format chosen
\* is the requested one of highest precedence, JSON > CSV > Raw > Table,
\* Table being the default.
C7_FormatPrecedence ==
    format # "" =>
        /\ format \in Requested
        /\ \A f \in Requested : Rank(f) <= Rank(format)

C7_Witness ==
    /\ args.flags.json /\ args.flags.csv /\ args.flags.raw /\ args.flags.table
    /\ format = "JSON"
    /\ pc = "returned"

IsObject(v) == v.t = "obj"
IsOther(v) == v.t # "obj"
ObjectsOf(vs) == SelectSeq(vs, IsObject)
\* the header of the first object, then the cells of each object, in order
CellsOf(vs) ==
    IF ObjectsOf(vs) = << >> THEN << >>
    ELSE << ObjectsOf(vs)[1].keys >>
         \o [k \in 1..Len(ObjectsOf(vs)) |->
               [j \in 1..Len(ObjectsOf(vs)[k].keys) |-> cell(ObjectsOf(vs)[k].items[j])]]
Measured == format = "Table" /\ pc \in {"rows", "returned", "exited"}
Longest(S) == CHOOSE n \in S : \A m \in S : m <= n
RECURSIVE Padded(_, _)
\* every cell of a row, each left-aligned to the width of its column and
\* followed by one space; a cell with no width is printed as it is
Padded(cells, w) ==
    IF cells = << >> THEN ""
    ELSE Head(cells)
         \o spaces(IF w # << >> /\ Head(w) > Len(Head(cells))
                   THEN Head(w) - Len(Head(cells)) ELSE 0)
         \o " " \o Padded(Tail(cells), IF w = << >> THEN w ELSE Tail(w))
RowsWritten == SelectSeq(stdout, LAMBDA l : l.kind = "row")

\* C8: for every result array of objects, with any numbers of keys, after
\* the measuring pass there is one width per header column, each the
\* largest length of a cell of its column over the header and all data
\* rows, and every cell of every row is printed padded to that width.
C8_WidthsAreColumnMaxima ==
    (Measured /\ value # << >> /\ \A k \in 1..Len(value) : IsObject(value[k])) =>
        LET cells == CellsOf(value)
        IN  /\ Len(widths) = Len(cells[1])
            /\ \A r \in 1..Len(cells) : Len(cells[r]) <= Len(widths)
            /\ \A j \in 1..Len(widths) :
                 widths[j] = Longest({Len(cells[r][j]) :
                                        r \in {q \in 1..Len(cells) : j <= Len(cells[q])}})
            /\ \A r \in 1..Len(RowsWritten) :
                 RowsWritten[r].text = Padded(cells[r], widths)

OtherLine(v) ==
    IF v.t = "str" THEN Line("string", v.s)
    ELSE Line("diag", "Unexpected type in result!")
\* the lines of the elements that are not objects, in array order
OtherLines(vs) ==
    [k \in 1..Len(SelectSeq(vs, IsOther)) |-> OtherLine(SelectSeq(vs, IsOther)[k])]
\* the header and the object rows, in array order
RowLines(vs, w) ==
    [k \in 1..Len(CellsOf(vs)) |-> Line("row", format_cells(CellsOf(vs)[k], w))]
RECURSIVE InOrderLines(_, _, _)
\* one line per element in array order, the header before the first object
InOrderLines(vs, w, headed) ==
    IF vs = << >> THEN << >>
    ELSE IF IsObject(Head(vs))
    THEN (IF headed THEN << >> ELSE << Line("row", format_cells(Head(vs).keys, w)) >>)
         \o << Line("row", format_cells(data_row(Head(vs)), w)) >>
         \o InOrderLines(Tail(vs), w, TRUE)
    ELSE << OtherLine(Head(vs)) >> \o InOrderLines(Tail(vs), w, headed)

\* C9 as stated: no row is written before every element is measured, and
\* what Table rendering has written when it ends is one line per element
\* in the order of the result array (the header before the first object),
\* also for arrays that mix strings with objects.
C9_LinesFollowArrayOrder ==
    /\ (format = "Table" /\ pc = "measure") => RowsWritten = << >>
    /\ (format = "Table" /\ Finished /\ exit = Exited(0)) =>
          stdout = << Line("echo", query) >> \o InOrderLines(value, widths, FALSE)

\* C9 amended: no header or data row is written before every element has
\* been visited; the lines of string elements (and of elements of
\* unexpected type) are written while the array is visited, in array
\* order; the header and then the object rows follow, in array order.
C9_TwoPassOrder ==
    (format = "Table" /\ pc \in {"measure", "rows", "returned", "exited"}) =>
        /\ pc = "measure" => RowsWritten = << >>
        /\ RowsWritten # << >> => idx = Len(value) + 1
        /\ stdout = << Line("echo", query) >>
                    \o OtherLines(SubSeq(value, 1, idx - 1))
                    \o SubSeq(RowLines(value, widths), 1, out - 1)
        /\ pc \in {"returned", "exited"} => out = Len(CellsOf(value)) + 1

C9_Witness ==
    /\ format = "Table"
    /\ Finished
    /\ exit = Exited(0)
    /\ Len(value) = 2
    /\ value[1] = Obj(<<"a", "bb">>, << Str("333"), Num("22") >>)
    /\ value[2] = Str("T")
    /\ stdout = << Line("echo", "show event types"), Line("string", "T"),
                   Line("row", "a   bb "), Line("row", "333 22 ") >>

\* C10: an invocation whose connection resolution succeeds sends exactly
\* one request, after echoing the query to standard output, and ends with
\* exit code 0 or 1; no invocation sends more than one request, and one
\* whose resolution fails sends none.
C10_OneRequestPerRun ==
    /\ Len(requests) <= 1
    /\ requests # << >> => (stdout # << >> /\ stdout[1] = Line("echo", query))
    /\ (Finished /\ connection.some) =>
          /\ Len(requests) = 1
          /\ exit \in {Exited(0), Exited(1)}
    /\ (Finished /\ ~connection.some) => requests = << >>

====
